---- MODULE Spec2Model ----
(***************************************************************************)
(* A model of the SurrealQL parser entry points (lib/src/sql/parser.rs):   *)
(* parse, sub_query, thing, value, json, their shared parse_impl, and the  *)
(* diagnostic locator (locate, truncate); of the statement-sequence        *)
(* grammar and the binary encoding of a Query, as the parser's tests use   *)
(* them; and of a transaction on the key-value store, as the tests of      *)
(* table definitions use it (lib/src/kvs/tests/tb.rs); and of the          *)
(* construction of a SpeeDb endpoint (lib/src/api/opt/endpoint/speedb.rs). *)
(*                                                                         *)
(* Five specifications share the module:                                   *)
(*   Spec        one call of an entry point, for any grammar               *)
(*   LocateSpec  one call of locate                                        *)
(*   QuerySpec   parse on statement texts, then encode and decode          *)
(*   KvSpec      set, del, get and scan inside one transaction             *)
(*   EndpointSpec  one call of into_endpoint on a path or a tuple          *)
(*                                                                         *)
(* Text is a sequence of characters.  Each character has a UTF-8 width, so *)
(* byte offsets (str::len, char_indices) and character counts differ:      *)
(*   "a"  a one-byte letter         " "  a one-byte space                  *)
(*   "nl" the line feed '\n'        "e2" a two-byte scalar such as 'é'     *)
(***************************************************************************)
EXTENDS Integers, Sequences, FiniteSets, TLC

VARIABLES
    pc,       \* "idle" before the call, "done" once the entry point returned
    entry,    \* the entry point that was called ("" before the call)
    input,    \* the text handed to the entry point
    calls,    \* the texts the grammar parser was invoked on, in order
    gres,     \* what the grammar returned (<<>> when it was not invoked)
    result,   \* what the entry point returned (<<>> before the call)
    tried,    \* LocateSpec: the tail handed to locate
    located,  \* LocateSpec: what locate returned (<<>> before the call)
    enc,      \* QuerySpec: the bytes of the encoded Query (<<>> before)
    dec,      \* QuerySpec: what decoding enc returned (<<>> before)
    store,    \* KvSpec: the transaction's view of the store, key -> bytes
    lastOp,   \* KvSpec: per key, the last write: none, del, or set of a value
    obs,      \* KvSpec: the last call on the transaction and what it returned
    args,     \* EndpointSpec: the value into_endpoint is called on
    ep        \* EndpointSpec: what into_endpoint returned (<<>> before)

parserVars == <<entry, calls, gres, result>>
locateVars == <<tried, located>>
codecVars == <<enc, dec>>
kvVars == <<store, lastOp, obs>>
endpointVars == <<args, ep>>

vars == <<pc, input, parserVars, locateVars, codecVars, kvVars, endpointVars>>

----------------------------------------------------------------------------
(* Bounds of the model *)

\* longest short input, in characters
MaxLen == 3
\* characters appended after the 99-character padding of a long input
MaxTail == 2

\* parser.rs:102  truncate(tried, 100)
SnippetMax == 100

----------------------------------------------------------------------------
(* Text *)

NL == "nl"
Chars == {"a", " ", NL, "e2"}
WideChars == {"a", "e2"}

\* char::len_utf8
Width(c) == IF c = "e2" THEN 2 ELSE 1

\* char::is_whitespace, which str::trim strips
IsWhite(c) == c \in {" ", NL}

Strs(S, n) == UNION {[1..k -> S] : k \in 0..n}

Rep(c, n) == [i \in 1..n |-> c]

\* the characters of s that are at least w bytes wide
AtLeast(s, w) == Cardinality({i \in DOMAIN s : Width(s[i]) >= w})

\* str::len: the length in bytes
ByteLen(s) == AtLeast(s, 1) + AtLeast(s, 2)

\* byte offset at which the k-th character (1-based) starts
ByteOffset(s, k) == ByteLen(SubSeq(s, 1, k - 1))

\* the suffixes of s that start on a character boundary (every &str slice does)
Suffixes(s) == {SubSeq(s, k, Len(s)) : k \in 1..(Len(s) + 1)}

\* str::trim_start: drop the longest all-whitespace prefix
TrimStart(s) ==
    LET black == {i \in DOMAIN s : ~IsWhite(s[i])}
    IN IF black = {} THEN <<>>
       ELSE SubSeq(s, CHOOSE i \in black : \A j \in black : i <= j, Len(s))

\* str::trim_end: drop the longest all-whitespace suffix
TrimEnd(s) ==
    LET black == {i \in DOMAIN s : ~IsWhite(s[i])}
    IN IF black = {} THEN <<>>
       ELSE SubSeq(s, 1, CHOOSE i \in black : \A j \in black : j <= i)

\* str::trim
Trim(s) == TrimEnd(TrimStart(s))

----------------------------------------------------------------------------
(* The diagnostic locator *)

\* A slice that would cut a scalar in two, or an arithmetic overflow, panics.
Panicked == <<"!panic">>

\* &s[..i]: the characters that end at or before byte i; slicing inside a
\* multi-byte scalar panics.
SliceTo(s, i) ==
    IF \E k \in 0..Len(s) : ByteLen(SubSeq(s, 1, k)) = i
    THEN SubSeq(s, 1, CHOOSE k \in 0..Len(s) : ByteLen(SubSeq(s, 1, k)) = i)
    ELSE Panicked

\* s.char_indices().nth(l): the byte index of the character numbered l from 0
CharIndexNth(s, l) == IF Len(s) <= l THEN -1 ELSE ByteOffset(s, l + 1)

\* (mutant) cuts at byte l instead of at the l-th character
TruncateBytes(s, l) == IF ByteLen(s) <= l THEN s ELSE SliceTo(s, l)

\* match s.char_indices().nth(l) { None => s, Some((i, _)) => &s[..i] }
truncate(s, l) ==
    IF CharIndexNth(s, l) = -1 THEN s ELSE SliceTo(s, CharIndexNth(s, l))

\* the positions of the '\n' of s, and the one past its end, in order
Breaks(s) ==
    LET nls == {i \in DOMAIN s : s[i] = NL}
        at[k \in 1..Cardinality(nls)] ==
            CHOOSE i \in nls : Cardinality({j \in nls : j < i}) = k - 1
    IN Append(at, Len(s) + 1)

\* input.split('\n').map(|l| l.len()): the byte length of every line
LineSizes(s) ==
    LET b == Breaks(s)
    IN [k \in DOMAIN b |->
          ByteLen(SubSeq(s, IF k = 1 THEN 1 ELSE b[k - 1] + 1, b[k] - 1))]

\* (mutant) reports the offset from the start of the input, not of the line
RECURSIVE LocateLoopFromInput(_, _, _, _, _)
LocateLoopFromInput(sizes, line, total, chars, index) ==
    IF line >= Len(sizes) THEN [line |-> 0, char |-> 0, found |-> FALSE]
    ELSE LET size == sizes[line + 1]
             total1 == total + size + 1
         IN IF index < total1
            THEN [line |-> line + 1, char |-> index, found |-> TRUE]
            ELSE LocateLoopFromInput(sizes, line + 1, total1, chars + size + 1, index)

\* (mutant) the running totals leave out the '\n' that ends each line
RECURSIVE LocateLoopNoNewline(_, _, _, _, _)
LocateLoopNoNewline(sizes, line, total, chars, index) ==
    IF line >= Len(sizes) THEN [line |-> 0, char |-> 0, found |-> FALSE]
    ELSE LET size == sizes[line + 1]
             total1 == total + size
         IN IF index < total1
            THEN [line |-> line + 1, char |-> index - chars, found |-> TRUE]
            ELSE LocateLoopNoNewline(sizes, line + 1, total1, chars + size, index)

\* the for loop of locate, from line number `line` (0-based) on; the record's
\* `found` is FALSE for the (0, 0) returned after the loop
RECURSIVE LocateLoop(_, _, _, _, _)
LocateLoop(sizes, line, total, chars, index) ==
    IF line >= Len(sizes) THEN [line |-> 0, char |-> 0, found |-> FALSE]
    ELSE LET size == sizes[line + 1]
             total1 == total + size + 1
         IN IF index < total1
            THEN [line |-> line + 1, char |-> index - chars, found |-> TRUE]
            ELSE LocateLoop(sizes, line + 1, total1, chars + size + 1, index)

\* let index = input.len() - tried.len();
Index(inp, tl) == ByteLen(inp) - ByteLen(tl)

\* The subtractions are on usize: a negative difference is an overflow, which
\* panics where overflow checks are on.
locate(inp, tl) ==
    LET index == Index(inp, tl)
        snip  == truncate(tl, SnippetMax)
        loc   == LocateLoop(LineSizes(inp), 0, 0, 0, index)
    IN [panic   |-> index < 0 \/ loc.char < 0 \/ snip = Panicked,
        snippet |-> snip,
        line    |-> loc.line,
        char    |-> loc.char,
        found   |-> loc.found]

----------------------------------------------------------------------------
(* The grammar, as parse_impl sees it: a function from the text to an      *)
(* IResult.  Any grammar returns the unconsumed remainder on success and   *)
(* the unparsed tail on failure, both slices of the text it was given.     *)

Fields == {"f", "g.h"}
ClauseKinds == {"Field", "Split", "Order", "Group"}

\* the structure a grammar builds from the text it consumed
Parsed(inp, rest) == [of |-> SubSeq(inp, 1, Len(inp) - Len(rest))]

GrammarErrors(inp) ==
    {[kind |-> "Parser", tail |-> t, field |-> ""] : t \in Suffixes(inp)}
    \cup {[kind |-> k, tail |-> t, field |-> f] :
            k \in ClauseKinds, t \in Suffixes(inp), f \in Fields}

AnyGrammar(inp) ==
    {[tag |-> "Ok", rest |-> r, parsed |-> Parsed(inp, r)] : r \in Suffixes(inp)}
    \cup {[tag |-> sev, e |-> e] :
            sev \in {"Error", "Failure"}, e \in GrammarErrors(inp)}

----------------------------------------------------------------------------
(* The errors of the entry points *)

QueryEmpty == [kind |-> "QueryEmpty"]
QueryRemaining == [kind |-> "QueryRemaining"]
Panic == [kind |-> "Panic"]

InvalidClause(kind, l, f) == [kind |-> kind, line |-> l, field |-> f]

\* (mutant) the Field and Split arms exchanged
ErrorOfSwapped(inp, e) ==
    LET at == locate(inp, e.tail)
    IN IF at.panic THEN Panic
       ELSE CASE e.kind = "Parser" ->
                   [kind |-> "InvalidQuery", line |-> at.line, char |-> at.char,
                    sql |-> at.snippet]
              [] e.kind = "Field" -> InvalidClause("InvalidSplit", at.line, e.field)
              [] e.kind = "Split" -> InvalidClause("InvalidField", at.line, e.field)
              [] e.kind = "Order" -> InvalidClause("InvalidOrder", at.line, e.field)
              [] e.kind = "Group" -> InvalidClause("InvalidGroup", at.line, e.field)

\* the match on e inside the arm
\*   Err(Err::Error(e)) | Err(Err::Failure(e)) => Err(match e { ... })
ErrorOf(inp, e) ==
    LET at == locate(inp, e.tail)
    IN IF at.panic THEN Panic
       ELSE CASE e.kind = "Parser" ->
                   [kind |-> "InvalidQuery", line |-> at.line, char |-> at.char,
                    sql |-> at.snippet]
              [] e.kind = "Field" -> InvalidClause("InvalidField", at.line, e.field)
              [] e.kind = "Split" -> InvalidClause("InvalidSplit", at.line, e.field)
              [] e.kind = "Order" -> InvalidClause("InvalidOrder", at.line, e.field)
              [] e.kind = "Group" -> InvalidClause("InvalidGroup", at.line, e.field)

\* (mutant) the first arm without its guard  if v.is_empty()
ClassifyAnyRest(inp, o) ==
    CASE o.tag = "Ok" -> [kind |-> "Ok", value |-> o.parsed]
      [] o.tag \in {"Error", "Failure"} -> ErrorOf(inp, o.e)
      [] OTHER -> Panic

\* (mutant) only Err::Error is matched: Err::Failure falls to unreachable!()
ClassifyErrorOnly(inp, o) ==
    CASE o.tag = "Ok" /\ o.rest = <<>> -> [kind |-> "Ok", value |-> o.parsed]
      [] o.tag = "Ok" /\ o.rest # <<>> -> QueryRemaining
      [] o.tag = "Error" -> ErrorOf(inp, o.e)
      [] OTHER -> Panic

\* the arms of  match parser(input) ; the last,  _ => unreachable!() , panics
Classify(inp, o) ==
    CASE o.tag = "Ok" /\ o.rest = <<>> -> [kind |-> "Ok", value |-> o.parsed]
      [] o.tag = "Ok" /\ o.rest # <<>> -> QueryRemaining
      [] o.tag \in {"Error", "Failure"} -> ErrorOf(inp, o.e)
      [] OTHER -> Panic

\* (mutant) the length is taken without trimming
IsEmptyUntrimmed(inp) == ByteLen(inp) = 0

\* match input.trim().len() { 0 => ..., _ => ... }
IsEmptyQuery(inp) == ByteLen(Trim(inp)) = 0

----------------------------------------------------------------------------
(* The statement-sequence grammar  stmt (';' stmt)* ';'?  on statement     *)
(* texts.  A statement text is a sequence of lexemes: a whole statement, a *)
(* whitespace character, the separator ';' or a comment.                   *)

Comment == "/* c */"
StmtLexemes ==
    {"RETURN 1", "RETURN 1.0", "SELECT * FROM test", "SELECT * FROM test TIMEOUT 2w"}
QueryChars == StmtLexemes \cup {" ", ";", Comment}

IsQueryText(s) == \A i \in DOMAIN s : s[i] \in QueryChars

\* the Statement a statement lexeme stands for
Statement(lex) ==
    CASE lex = "RETURN 1" ->
           [kind |-> "Output", what |-> [num |-> "Int", v |-> 1]]
      [] lex = "RETURN 1.0" ->
           [kind |-> "Output", what |-> [num |-> "Float", v |-> 1]]
      [] lex = "SELECT * FROM test" ->
           [kind |-> "Select", what |-> "test", timeout |-> <<>>]
      [] lex = "SELECT * FROM test TIMEOUT 2w" ->
           [kind |-> "Select", what |-> "test", timeout |-> <<2>>]

\* s without the characters at its start that are in skip
DropWhile(s, skip) ==
    LET keep == {i \in DOMAIN s : s[i] \notin skip}
    IN IF keep = {} THEN <<>>
       ELSE SubSeq(s, CHOOSE i \in keep : \A j \in keep : i <= j, Len(s))

SpaceOrComment == {" ", Comment}
IsColon(c) == c = ";"

\* whitespace and comments, possibly none
mightbespace(s) == DropWhile(s, SpaceOrComment)

NoMatch == [ok |-> FALSE, rest |-> <<>>]

\* one separator: any number of consecutive ';', at least one, with
\* whitespace and comments before, between and after them
colons(s) ==
    LET a == mightbespace(s)
    IN IF a # <<>> /\ IsColon(Head(a))
       THEN [ok |-> TRUE, rest |-> DropWhile(a, SpaceOrComment \cup {";"})]
       ELSE NoMatch

\* one statement, with whitespace and comments around it
statement(s) ==
    LET a == mightbespace(s)
    IN IF a # <<>> /\ Head(a) \in StmtLexemes
       THEN [ok |-> TRUE, rest |-> mightbespace(Tail(a)), v |-> Statement(Head(a)),
             tail |-> <<>>]
       ELSE [ok |-> FALSE, rest |-> <<>>, v |-> <<>>, tail |-> a]

\* (colons statement)*: a separator is consumed only with the statement after it
RECURSIVE more_statements(_, _)
more_statements(s, acc) ==
    LET c  == colons(s)
        st == statement(c.rest)
    IN IF c.ok /\ st.ok THEN more_statements(st.rest, Append(acc, st.v))
       ELSE [rest |-> s, v |-> acc]

\* colons*: the separators that follow the last statement
RECURSIVE many_colons(_)
many_colons(s) == IF colons(s).ok THEN many_colons(colons(s).rest) ELSE s

\* the grammar of parse: the statements, then any trailing separators
query(s) ==
    LET first == statement(s)
        list  == more_statements(first.rest, <<first.v>>)
    IN IF ~first.ok
       THEN [tag |-> "Error", e |-> [kind |-> "Parser", tail |-> first.tail, field |-> ""]]
       ELSE [tag |-> "Ok", rest |-> many_colons(list.rest), parsed |-> list.v]

----------------------------------------------------------------------------
(* parse_impl *)

\* What the grammar named `parser` may return on inp: the statement grammar on
\* a statement text; on any other text, and for the other grammars, whatever a
\* grammar may return.
Apply(parser, inp) ==
    IF parser = "query" /\ IsQueryText(inp) THEN {query(inp)} ELSE AnyGrammar(inp)

parse_impl(name, inp, parser) ==
    /\ pc = "idle"
    /\ pc' = "done"
    /\ entry' = name
    /\ IF IsEmptyQuery(inp)
       THEN /\ calls' = calls
            /\ gres' = gres
            /\ result' = QueryEmpty
       ELSE \E o \in Apply(parser, inp) :
               /\ calls' = Append(calls, inp)
               /\ gres' = o
               /\ result' = Classify(inp, o)
    /\ UNCHANGED <<input, locateVars, codecVars, kvVars, endpointVars>>

----------------------------------------------------------------------------
(* The entry points *)

\* (mutant) parse hands parse_impl the grammar of sub_query
parse_as_subquery == parse_impl("parse", input, "subquery")

parse == parse_impl("parse", input, "query")

sub_query == parse_impl("sub_query", input, "subquery")

thing == parse_impl("thing", input, "thing")

value == parse_impl("value", input, "value")

\* (mutant) json hands the caller's text on as it is
JsonTextUntrimmed(inp) == inp

\* the argument  input.trim()  of json's call of parse_impl
JsonText(inp) == Trim(inp)

json == parse_impl("json", JsonText(input), "json")

----------------------------------------------------------------------------
(* The texts the entry points are called on *)

ShortInputs == Strs(Chars, MaxLen)

\* texts whose tail crosses the 100-character limit of the snippet, with
\* one- and two-byte characters on either side of it
LongInputs ==
    {Rep(c, SnippetMax - 1) \o w : c \in WideChars, w \in [1..MaxTail -> WideChars]}

Inputs == ShortInputs \cup LongInputs

\* nothing called yet
NoCall ==
    /\ pc = "idle"
    /\ entry = ""
    /\ calls = <<>>
    /\ gres = <<>>
    /\ result = <<>>
    /\ located = <<>>
    /\ enc = <<>>
    /\ dec = <<>>
    /\ obs = <<>>
    /\ ep = <<>>

Init ==
    /\ NoCall
    /\ input \in Inputs
    /\ tried = <<>>
    /\ store = <<>>
    /\ lastOp = <<>>
    /\ args = <<>>

Next == parse \/ sub_query \/ thing \/ value \/ json

Spec == Init /\ [][Next]_vars

----------------------------------------------------------------------------
(* LocateSpec: locate on every text and every tail of it *)

LocateInit ==
    /\ NoCall
    /\ input \in Inputs
    /\ tried \in Suffixes(input)
    /\ store = <<>>
    /\ lastOp = <<>>
    /\ args = <<>>

Locate ==
    /\ pc = "idle"
    /\ pc' = "done"
    /\ located' = locate(input, tried)
    /\ UNCHANGED <<input, tried, parserVars, codecVars, kvVars, endpointVars>>

LocateNext == Locate

LocateSpec == LocateInit /\ [][LocateNext]_vars

----------------------------------------------------------------------------
(* QuerySpec: parse on statement texts, then the binary encoding of the    *)
(* Query and its decoding, as tests::parser_try does.  The encoding is a   *)
(* sequence of tokens: a count, then per statement its tag and its fields. *)

Digits == <<"0", "1", "2", "3", "4", "5", "6", "7", "8", "9">>
Digit(n) == Digits[n + 1]
IsDigit(d) == \E n \in 0..9 : Digits[n + 1] = d
UnDigit(d) == CHOOSE n \in 0..9 : Digits[n + 1] = d

DecodeError == [kind |-> "DecodeError"]

\* (mutant) the number is written without its kind
enc_number_untagged(n) == <<"Int", Digit(n.v)>>

enc_number(n) == <<n.num, Digit(n.v)>>

enc_option(o) == IF o = <<>> THEN <<"None">> ELSE <<"Some", Digit(o[1])>>

enc_statement(st) ==
    IF st.kind = "Output" THEN <<"Output">> \o enc_number(st.what)
    ELSE <<"Select", st.what>> \o enc_option(st.timeout)

RECURSIVE enc_statements(_)
enc_statements(q) ==
    IF q = <<>> THEN <<>> ELSE enc_statement(Head(q)) \o enc_statements(Tail(q))

\* Vec::<u8>::from(&query)
encode(q) == <<Digit(Len(q))>> \o enc_statements(q)

Bad == [ok |-> FALSE, v |-> <<>>, rest |-> <<>>]

dec_statement(b) ==
    IF Len(b) >= 3 /\ b[1] = "Output" /\ b[2] \in {"Int", "Float"} /\ IsDigit(b[3])
    THEN [ok |-> TRUE, rest |-> SubSeq(b, 4, Len(b)),
          v |-> [kind |-> "Output", what |-> [num |-> b[2], v |-> UnDigit(b[3])]]]
    ELSE IF Len(b) >= 3 /\ b[1] = "Select" /\ b[3] = "None"
    THEN [ok |-> TRUE, rest |-> SubSeq(b, 4, Len(b)),
          v |-> [kind |-> "Select", what |-> b[2], timeout |-> <<>>]]
    ELSE IF Len(b) >= 4 /\ b[1] = "Select" /\ b[3] = "Some" /\ IsDigit(b[4])
    THEN [ok |-> TRUE, rest |-> SubSeq(b, 5, Len(b)),
          v |-> [kind |-> "Select", what |-> b[2], timeout |-> <<UnDigit(b[4])>>]]
    ELSE Bad

RECURSIVE dec_statements(_, _, _)
dec_statements(b, n, acc) ==
    IF n = 0 THEN [ok |-> TRUE, v |-> acc, rest |-> b]
    ELSE LET st == dec_statement(b)
         IN IF st.ok THEN dec_statements(st.rest, n - 1, Append(acc, st.v)) ELSE Bad

\* Query::from(bytes): truncated or foreign bytes are an error
decode(b) ==
    IF b = <<>> \/ ~IsDigit(b[1]) THEN DecodeError
    ELSE LET r == dec_statements(Tail(b), UnDigit(b[1]), <<>>)
         IN IF r.ok /\ r.rest = <<>> THEN [kind |-> "Ok", value |-> r.v]
            ELSE DecodeError

\* longest statement text, in lexemes
MaxQueryLen == 4

\* the texts of tests::no_ending, parse_query_string, trim_query_string and
\* parse_complex_rubbish ("SELECT    *    FROM    test" is the one statement)
no_ending == <<"SELECT * FROM test">>
parse_query_string == <<"SELECT * FROM test", ";">>
trim_query_string ==
    Rep(" ", 4) \o <<"SELECT * FROM test">> \o Rep(" ", 4) \o <<";">> \o Rep(" ", 4)
parse_complex_rubbish ==
    Rep(" ", 4) \o <<"SELECT * FROM test">> \o Rep(" ", 4)
        \o <<";", " ", Comment, " ", ";", ";", ";">> \o Rep(" ", 4)
TestTexts == {no_ending, parse_query_string, trim_query_string, parse_complex_rubbish}

QueryTexts == Strs(QueryChars, MaxQueryLen) \cup TestTexts

QueryInit ==
    /\ NoCall
    /\ input \in QueryTexts
    /\ tried = <<>>
    /\ store = <<>>
    /\ lastOp = <<>>
    /\ args = <<>>

\* let enc: Vec<u8> = Vec::from(&tmp);
Encode ==
    /\ pc = "done"
    /\ result.kind = "Ok"
    /\ pc' = "encoded"
    /\ enc' = encode(result.value)
    /\ UNCHANGED <<input, parserVars, locateVars, dec, kvVars, endpointVars>>

\* let dec: Query = Query::from(enc);
Decode ==
    /\ pc = "encoded"
    /\ pc' = "decoded"
    /\ dec' = decode(enc)
    /\ UNCHANGED <<input, parserVars, locateVars, enc, kvVars, endpointVars>>

QueryNext == parse \/ Encode \/ Decode

QuerySpec == QueryInit /\ [][QueryNext]_vars

----------------------------------------------------------------------------
(* KvSpec: one writeable transaction on an initially empty store, with the *)
(* table-definition keys of key::database::tb.  A key is a sequence of     *)
(* bytes; the store orders keys bytewise.                                  *)

\* one-byte names of namespaces, databases and tables
Namespaces == {110}
Databases == {100, 101}
Tables == {116, 117}

\* Tb::new(ns, db, tb), encoded:  /*{ns}\0*{db}\0!tb{tb}\0
Tb(ns, db, tb) == <<47, 42, ns, 0, 42, db, 0, 33, 116, 98, tb, 0>>

\* tb::prefix(ns, db) and tb::suffix(ns, db): below and above every Tb of db
prefix(ns, db) == <<47, 42, ns, 0, 42, db, 0, 33, 116, 98, 0>>
suffix(ns, db) == <<47, 42, ns, 0, 42, db, 0, 33, 116, 98, 255>>

TbKeys == {Tb(ns, db, tb) : ns \in Namespaces, db \in Databases, tb \in Tables}

\* DefineTableStatement { drop, full, .. }, the other fields at their defaults
TableDefs == {[drop |-> d, full |-> FALSE] : d \in BOOLEAN}

Bit(b) == IF b THEN 1 ELSE 0

\* Vec::<u8>::from(&DefineTableStatement) and DefineTableStatement::from(&bytes)
table_bytes(v) == <<Bit(v.drop), Bit(v.full)>>
table_from(b) == [drop |-> b[1] = 1, full |-> b[2] = 1]

\* bytewise order of keys
RECURSIVE KeyLess(_, _)
KeyLess(a, b) ==
    IF b = <<>> THEN FALSE
    ELSE IF a = <<>> THEN TRUE
    ELSE IF Head(a) # Head(b) THEN Head(a) < Head(b)
    ELSE KeyLess(Tail(a), Tail(b))

\* the elements of a set of keys, in order
Sorted(ks) ==
    [i \in 1..Cardinality(ks) |->
        CHOOSE k \in ks : Cardinality({j \in ks : KeyLess(j, k)}) = i - 1]

\* tb.rs:37  the limit passed to scan
ScanLimit == 1000

\* (mutant) the range of every table key of the namespace
ScanRangeOfNamespace(ns, db) == <<<<47, 42, ns, 0>>, <<47, 42, ns, 1>>>>

\* tb::prefix(namespace, database)..tb::suffix(namespace, database)
ScanRange(ns, db) == <<prefix(ns, db), suffix(ns, db)>>

\* Transaction::scan(beg..end, limit): the entries with beg <= key < end, in
\* key order, limit of them at most
tx_scan(rng, limit) ==
    LET ks  == {k \in DOMAIN store : ~KeyLess(k, rng[1]) /\ KeyLess(k, rng[2])}
        all == Sorted(ks)
    IN [i \in 1..(IF Len(all) <= limit THEN Len(all) ELSE limit) |->
          <<all[i], store[all[i]]>>]

\* Transaction::get(key): Some(bytes) as <<bytes>>, None as <<>>
tx_get(key) == IF key \in DOMAIN store THEN <<store[key]>> ELSE <<>>

\* Transaction::set(key, val)
tx_set(key, bytes) ==
    [k \in DOMAIN store \cup {key} |-> IF k = key THEN bytes ELSE store[k]]

\* Transaction::del(key)
tx_del(key) == [k \in DOMAIN store \ {key} |-> store[k]]

KvInit ==
    /\ NoCall
    /\ input = <<>>
    /\ tried = <<>>
    /\ store = <<>>
    /\ lastOp = [k \in TbKeys |-> [op |-> "none"]]
    /\ args = <<>>

KvFrame == UNCHANGED <<pc, input, parserVars, locateVars, codecVars, endpointVars>>

\* tx.set(&key, &value)
Set ==
    \E key \in TbKeys, v \in TableDefs :
        /\ store' = tx_set(key, table_bytes(v))
        /\ lastOp' = [lastOp EXCEPT ![key] = [op |-> "set", value |-> v]]
        /\ obs' = [op |-> "set", key |-> key, ret |-> <<>>]
        /\ KvFrame

\* tx.del(&key)
Del ==
    \E key \in TbKeys :
        /\ store' = tx_del(key)
        /\ lastOp' = [lastOp EXCEPT ![key] = [op |-> "del"]]
        /\ obs' = [op |-> "del", key |-> key, ret |-> <<>>]
        /\ KvFrame

\* tx.get(&key)
Get ==
    \E key \in TbKeys :
        /\ obs' = [op |-> "get", key |-> key, ret |-> tx_get(key)]
        /\ UNCHANGED <<store, lastOp>>
        /\ KvFrame

\* tx.scan(tb::prefix(namespace, database)..tb::suffix(namespace, database), 1000)
Scan ==
    \E ns \in Namespaces, db \in Databases :
        /\ obs' = [op |-> "scan", ns |-> ns, db |-> db,
                   ret |-> tx_scan(ScanRange(ns, db), ScanLimit)]
        /\ UNCHANGED <<store, lastOp>>
        /\ KvFrame

KvNext == Set \/ Del \/ Get \/ Scan

KvSpec == KvInit /\ [][KvNext]_vars

----------------------------------------------------------------------------
(* EndpointSpec: IntoEndpoint<SpeeDb> for &str, &Path and the tuples       *)
(* (T, Strict), (T, Config), (T, Root), (T, Strict, Root) and              *)
(* (T, Config, Root), T: AsRef<Path>.                                      *)

\* Texts a &str can hold.  The url crate rejects "speedb://my db".
StrPaths == {"temp.db", "my db"}
Unparsable == {"my db"}

\* A path need not be UTF-8: "db\xFF" stands for one that is not.
Paths == StrPaths \cup {"db\\xFF"}

\* self.display().to_string(): bytes that are not UTF-8 become U+FFFD
display(path) == IF path = "db\\xFF" THEN "db\\u{FFFD}" ELSE path

\* the options of a Config: strict, and `other` for all the rest of them
Configs == [strict : BOOLEAN, other : {"default", "custom"}]

\* Default::default()
DefaultConfig == [strict |-> FALSE, other |-> "default"]

\* Root { username, password }
Roots ==
    {[username |-> "root", password |-> "secret"],
     [username |-> "admin", password |-> ""]}

\* format!("speedb://{self}")
format_url(str) == <<"speedb", "://", str>>

\* Url::parse(&url), None as <<>>
url_parse(url) ==
    IF url[3] \in Unparsable THEN <<>>
    ELSE <<[scheme |-> url[1], rest |-> url[3]]>>

InvalidUrl(url) == [ok |-> FALSE, err |-> "InvalidUrl", url |-> url]

\* impl IntoEndpoint<SpeeDb> for &str
str_into_endpoint(str) ==
    LET url == format_url(str)
    IN IF url_parse(url) = <<>> THEN InvalidUrl(url)
       ELSE [ok |-> TRUE,
             endpoint |-> [endpoint   |-> url_parse(url)[1],
                           config     |-> DefaultConfig,
                           tls_config |-> "None",
                           auth       |-> "No",
                           username   |-> "",
                           password   |-> ""]]

\* impl IntoEndpoint<SpeeDb> for &Path
path_into_endpoint(path) == str_into_endpoint(display(path))

\* impl IntoEndpoint<SpeeDb> for (T, Strict); an error returns at the `?`
strict_into_endpoint(path) ==
    LET r == path_into_endpoint(path)
    IN IF ~r.ok THEN r ELSE [r EXCEPT !.endpoint.config.strict = TRUE]

\* impl IntoEndpoint<SpeeDb> for (T, Config)
config_into_endpoint(path, config) ==
    LET r == path_into_endpoint(path)
    IN IF ~r.ok THEN r ELSE [r EXCEPT !.endpoint.config = config]

\* impl IntoEndpoint<SpeeDb> for (T, Root)
root_into_endpoint(path, root) ==
    LET r == path_into_endpoint(path)
    IN IF ~r.ok THEN r
       ELSE [r EXCEPT !.endpoint.auth = "Kv",
                      !.endpoint.username = root.username,
                      !.endpoint.password = root.password]

\* impl IntoEndpoint<SpeeDb> for (T, Strict, Root)
strict_root_into_endpoint(path, root) ==
    LET r == root_into_endpoint(path, root)
    IN IF ~r.ok THEN r ELSE [r EXCEPT !.endpoint.config.strict = TRUE]

\* (mutant) the three-element form builds on the bare path and drops root
config_root_without_root(path, config, root) == config_into_endpoint(path, config)

\* impl IntoEndpoint<SpeeDb> for (T, Config, Root)
config_root_into_endpoint(path, config, root) ==
    LET r == root_into_endpoint(path, root)
    IN IF ~r.ok THEN r ELSE [r EXCEPT !.endpoint.config = config]

\* the values into_endpoint is called on; a field a form lacks is <<>>
Arg(form, path, config, root) ==
    [form |-> form, path |-> path, config |-> config, root |-> root]

EndpointArgs ==
    {Arg("str", p, <<>>, <<>>) : p \in StrPaths}
    \cup {Arg(f, p, <<>>, <<>>) : f \in {"path", "strict"}, p \in Paths}
    \cup {Arg("config", p, c, <<>>) : p \in Paths, c \in Configs}
    \cup {Arg(f, p, <<>>, r) : f \in {"root", "strict_root"}, p \in Paths, r \in Roots}
    \cup {Arg("config_root", p, c, r) : p \in Paths, c \in Configs, r \in Roots}

EndpointInit ==
    /\ NoCall
    /\ input = <<>>
    /\ tried = <<>>
    /\ store = <<>>
    /\ lastOp = <<>>
    /\ args \in EndpointArgs

\* what a call of into_endpoint leaves alone
EndpointFrame == UNCHANGED <<input, args, parserVars, locateVars, codecVars, kvVars>>

IntoEndpointStr ==
    /\ pc = "idle"
    /\ args.form = "str"
    /\ pc' = "done"
    /\ ep' = str_into_endpoint(args.path)
    /\ EndpointFrame

IntoEndpointPath ==
    /\ pc = "idle"
    /\ args.form = "path"
    /\ pc' = "done"
    /\ ep' = path_into_endpoint(args.path)
    /\ EndpointFrame

IntoEndpointStrict ==
    /\ pc = "idle"
    /\ args.form = "strict"
    /\ pc' = "done"
    /\ ep' = strict_into_endpoint(args.path)
    /\ EndpointFrame

IntoEndpointConfig ==
    /\ pc = "idle"
    /\ args.form = "config"
    /\ pc' = "done"
    /\ ep' = config_into_endpoint(args.path, args.config)
    /\ EndpointFrame

IntoEndpointRoot ==
    /\ pc = "idle"
    /\ args.form = "root"
    /\ pc' = "done"
    /\ ep' = root_into_endpoint(args.path, args.root)
    /\ EndpointFrame

IntoEndpointStrictRoot ==
    /\ pc = "idle"
    /\ args.form = "strict_root"
    /\ pc' = "done"
    /\ ep' = strict_root_into_endpoint(args.path, args.root)
    /\ EndpointFrame

IntoEndpointConfigRoot ==
    /\ pc = "idle"
    /\ args.form = "config_root"
    /\ pc' = "done"
    /\ ep' = config_root_into_endpoint(args.path, args.config, args.root)
    /\ EndpointFrame

EndpointNext ==
    \/ IntoEndpointStr
    \/ IntoEndpointPath
    \/ IntoEndpointStrict
    \/ IntoEndpointConfig
    \/ IntoEndpointRoot
    \/ IntoEndpointStrictRoot
    \/ IntoEndpointConfigRoot

EndpointSpec == EndpointInit /\ [][EndpointNext]_vars

----------------------------------------------------------------------------
(* Properties of the entry points *)

Done == pc = "done"

\* the grammar was invoked and what it returned is in gres
Invoked == Done /\ calls # <<>>

\* the text the grammar was given
Given == calls[1]

GrammarFailed == Invoked /\ gres.tag \in {"Error", "Failure"}

IsBlank(s) == \A i \in DOMAIN s : IsWhite(s[i])

ErrorKinds ==
    {"QueryEmpty", "QueryRemaining", "InvalidQuery", "InvalidField",
     "InvalidSplit", "InvalidOrder", "InvalidGroup"}

\* the byte offset of the failure: len(input) - len(tail)
FailureOffset(s, tail) == ByteLen(s) - ByteLen(tail)

\* the '\n' of s that lie strictly before byte offset off
NewlinesBefore(s, off) == {i \in DOMAIN s : s[i] = NL /\ ByteOffset(s, i) < off}

\* the byte offset at which the line holding offset off starts
LineStart(s, off) ==
    LET starts == {ByteOffset(s, i) + 1 : i \in NewlinesBefore(s, off)}
    IN IF starts = {} THEN 0 ELSE CHOOSE b \in starts : \A c \in starts : c <= b

LineOf(s, tail) == 1 + Cardinality(NewlinesBefore(s, FailureOffset(s, tail)))

CharOf(s, tail) == FailureOffset(s, tail) - LineStart(s, FailureOffset(s, tail))

Min(a, b) == IF a <= b THEN a ELSE b

\* C1: whichever entry point is called, a text that is empty or all whitespace
\* is answered with QueryEmpty and the grammar is not invoked on it.
C1_EmptyInput ==
    (Done /\ IsBlank(input)) => (result = QueryEmpty /\ calls = <<>> /\ gres = <<>>)

C1_Witness ==
    /\ Done
    /\ Len(input) >= 2
    /\ IsBlank(input)
    /\ result = QueryEmpty
    /\ entry = "thing"

\* C2: the entry point returns Ok exactly when the grammar succeeded with an
\* empty remainder, and then returns the grammar's own structure, built from
\* the whole text; success with a non-empty remainder is QueryRemaining.
C2_WholeInputOrError ==
    Done =>
        /\ (result.kind = "Ok") <=>
               (calls # <<>> /\ gres.tag = "Ok" /\ gres.rest = <<>>)
        /\ (result.kind = "Ok") =>
               (result.value = gres.parsed /\ result.value.of = Given)
        /\ (calls # <<>> /\ gres.tag = "Ok" /\ gres.rest # <<>>) =>
               result = QueryRemaining

C2_Witness ==
    /\ Done
    /\ result = QueryRemaining
    /\ gres.tag = "Ok"
    /\ Len(gres.rest) = 1
    /\ Len(Given) = 3

\* C3: for every text and every tail that is a suffix of it, locate reports
\* line = 1 + the number of '\n' strictly before byte offset
\* len(input) - len(tail), and char = that offset minus the byte offset at
\* which that line starts.
C3_LineAndChar ==
    (Done /\ located # <<>>) =>
        /\ located.line = LineOf(input, tried)
        /\ located.char = CharOf(input, tried)

\* a failure on the first byte of the second line, after a two-byte character
C3_Witness ==
    /\ Done
    /\ input = <<"e2", NL, "a">>
    /\ tried = <<"a">>
    /\ located # <<>>
    /\ located.line = 2
    /\ located.char = 0

\* C4: the snippet of InvalidQuery is the first min(100, n) characters of the
\* n-character tail, all of them whole characters, and is the whole tail when
\* n <= 100.
C4_Snippet ==
    (Done /\ result.kind = "InvalidQuery") =>
        LET t == gres.e.tail
        IN /\ Len(result.sql) = Min(SnippetMax, Len(t))
           /\ result.sql = SubSeq(t, 1, Len(result.sql))
           /\ \A i \in DOMAIN result.sql : result.sql[i] \in Chars
           /\ (Len(t) <= SnippetMax) => (result.sql = t)

\* a 101-character tail of two-byte characters, cut to 100 of them
C4_Witness ==
    /\ Done
    /\ result.kind = "InvalidQuery"
    /\ Len(gres.e.tail) = SnippetMax + 1
    /\ gres.e.tail[SnippetMax] = "e2"
    /\ gres.e.tail[SnippetMax + 1] = "e2"
    /\ Len(result.sql) = SnippetMax
    /\ ByteLen(result.sql) = 2 * SnippetMax

ClauseError(kind) ==
    CASE kind = "Field" -> "InvalidField"
      [] kind = "Split" -> "InvalidSplit"
      [] kind = "Order" -> "InvalidOrder"
      [] kind = "Group" -> "InvalidGroup"
      [] OTHER -> "InvalidQuery"

\* C5: a Field, Split, Order or Group failure of the grammar is returned as
\* InvalidField, InvalidSplit, InvalidOrder or InvalidGroup with the same field
\* text and the line of its tail; a Parser failure, and only that, is returned
\* as InvalidQuery.
C5_ClauseErrors ==
    GrammarFailed =>
        /\ result.kind = ClauseError(gres.e.kind)
        /\ (result.kind = "InvalidQuery") <=> (gres.e.kind = "Parser")
        /\ (gres.e.kind \in ClauseKinds) =>
               /\ result.field = gres.e.field
               /\ result.line = LineOf(Given, gres.e.tail)
               /\ DOMAIN result = {"kind", "line", "field"}

C5_Witness ==
    /\ GrammarFailed
    /\ gres.tag = "Failure"
    /\ gres.e.kind = "Split"
    /\ gres.e.field = "g.h"
    /\ result = [kind |-> "InvalidSplit", line |-> 2, field |-> "g.h"]

C9_JsonTrimInvariant ==
    (Done /\ entry = "json") =>
        LET t == Trim(input)
        IN /\ calls = (IF IsEmptyQuery(JsonText(t)) THEN <<>> ELSE <<JsonText(t)>>)
           /\ result = (IF IsEmptyQuery(JsonText(t)) THEN QueryEmpty
                        ELSE Classify(JsonText(t), gres))
           /\ (calls # <<>>) => (Given = t /\ ~IsWhite(Given[1]) /\ ~IsWhite(Given[Len(Given)]))
           /\ GrammarFailed => (result.line = LineOf(t, gres.e.tail))

\* a text with a leading newline: the failure is on line 1 of the trimmed text
C9_Witness ==
    /\ Done
    /\ entry = "json"
    /\ input = <<NL, "a", " ">>
    /\ result.kind = "InvalidQuery"
    /\ result.line = 1
    /\ result.char = 1

----------------------------------------------------------------------------
(* Properties of the statement grammar and of the encoding *)

\* the statements of a text, in order
StatementsOf(s) ==
    LET at == {i \in DOMAIN s : s[i] \in StmtLexemes}
        nth[k \in 1..Cardinality(at)] ==
            CHOOSE i \in at : Cardinality({j \in at : j < i}) = k - 1
    IN [k \in 1..Cardinality(at) |-> Statement(s[nth[k]])]

\* A text of the claim: statements, the first preceded by whitespace at most,
\* any two of them with a ';' somewhere between, and whitespace, comments and
\* ';' anywhere after the first statement.
IsStatementList(s) ==
    LET at == {i \in DOMAIN s : s[i] \in StmtLexemes}
    IN /\ at # {}
       /\ \A i \in DOMAIN s : (\A j \in at : i < j) => s[i] = " "
       /\ \A i, j \in at : i < j => \E k \in (i + 1)..(j - 1) : s[k] = ";"

C7_RoundTrip ==
    (pc = "decoded") => (dec = [kind |-> "Ok", value |-> result.value])

C7_Witness ==
    /\ pc = "decoded"
    /\ dec.kind = "Ok"
    /\ dec.value = <<Statement("RETURN 1.0"), Statement("SELECT * FROM test TIMEOUT 2w")>>

----------------------------------------------------------------------------
(* Properties of the transaction *)

\* the table keys of a database whose last write was a set
Defined(ns, db) == {k \in {Tb(ns, db, tb) : tb \in Tables} : lastOp[k].op = "set"}

----------------------------------------------------------------------------
(* Properties of the locator's loop *)

\* the number of lines of s: one more than its '\n'
NumLines(s) == 1 + Cardinality({i \in DOMAIN s : s[i] = NL})

\* the characters of line n (1-based) of s, its '\n' left out
LineChars(s, n) ==
    {i \in DOMAIN s :
        s[i] # NL /\ Cardinality({j \in 1..(i - 1) : s[j] = NL}) = n - 1}

\* the byte length of line n of s
LineBytes(s, n) ==
    Cardinality(LineChars(s, n))
        + Cardinality({i \in LineChars(s, n) : Width(s[i]) = 2})

RECURSIVE SumSeq(_)
SumSeq(q) == IF q = <<>> THEN 0 ELSE Head(q) + SumSeq(Tail(q))

\* the cumulative bound of the loop after the last line
LastBound(s) == SumSeq(LineSizes(s)) + Len(LineSizes(s))

\* C11: for every text and every tail that is a suffix of it, locate returns
\* from inside its loop, never the (0, 0) after it: the bound after the last
\* line is len(input) + 1, above every failure offset.  So 1 <= line <= the
\* number of lines of the text, and 0 <= char <= the byte length of that line.
C11_NeverFallback ==
    (Done /\ located # <<>>) =>
        /\ located.found
        /\ LastBound(input) = ByteLen(input) + 1
        /\ Index(input, tried) < LastBound(input)
        /\ 1 <= located.line /\ located.line <= NumLines(input)
        /\ 0 <= located.char /\ located.char <= LineBytes(input, located.line)

\* the largest offset, the end of a text whose last line is empty
C11_Witness ==
    /\ Done
    /\ input = <<"e2", NL>>
    /\ tried = <<>>
    /\ located # <<>>
    /\ located.found
    /\ located.line = 2
    /\ located.char = 0

----------------------------------------------------------------------------
(* Properties of the endpoint construction *)

HasRoot == args.form \in {"root", "strict_root", "config_root"}
HasStrict == args.form \in {"strict", "strict_root"}
HasConfig == args.form \in {"config", "config_root"}

\* the text after "speedb://": the &str itself, or the displayed path
PathText == IF args.path = "db\\xFF" THEN "db\\u{FFFD}" ELSE args.path

\* C12: the endpoint built from a path or a tuple has the URL
\* speedb://<path>, whatever the options; auth = Kv and root's username and
\* password exactly when Root is given, else auth = No and both empty; the
\* default config, with strict = true when Strict is given, or the supplied
\* config when Config is given; in the three-element forms both hold together.
\* An unparsable URL gives InvalidUrl with the prefixed URL and no endpoint.
C12_OnlyNamedFields ==
    (pc = "done" /\ ep # <<>>) =>
        IF PathText \in Unparsable
        THEN ep = [ok |-> FALSE, err |-> "InvalidUrl",
                   url |-> <<"speedb", "://", PathText>>]
        ELSE /\ ep.ok
             /\ DOMAIN ep = {"ok", "endpoint"}
             /\ ep.endpoint.endpoint = [scheme |-> "speedb", rest |-> PathText]
             /\ ep.endpoint.tls_config = "None"
             /\ ep.endpoint.auth = (IF HasRoot THEN "Kv" ELSE "No")
             /\ ep.endpoint.username = (IF HasRoot THEN args.root.username ELSE "")
             /\ ep.endpoint.password = (IF HasRoot THEN args.root.password ELSE "")
             /\ ep.endpoint.config =
                   (IF HasConfig THEN args.config
                    ELSE [strict |-> HasStrict, other |-> "default"])

\* (path, Config, Root): the supplied config and root's credentials together
C12_Witness ==
    /\ pc = "done"
    /\ ep # <<>>
    /\ args.form = "config_root"
    /\ args.config = [strict |-> TRUE, other |-> "custom"]
    /\ ep.ok
    /\ ep.endpoint.config = args.config
    /\ ep.endpoint.auth = "Kv"
    /\ ep.endpoint.username = "root"
    /\ ep.endpoint.password = "secret"
    /\ ep.endpoint.endpoint.rest = "temp.db"

====
